---- MODULE Spec2Model ----
(***************************************************************************)
(* A model of the blurz client library: the proxies it builds over the     *)
(* org.bluez daemon's object graph, the discovery session, the OBEX        *)
(* transfer poller, the signal receiver of a session, the Modalias parser  *)
(* and the requests of the adapter and GATT proxies.                       *)
(*                                                                         *)
(* The daemon and the D-Bus transport are the environment.  The library's  *)
(* functions are operators and actions named after the source.             *)
(***************************************************************************)
EXTENDS Integers, Sequences, FiniteSets, TLC

(***************************************************************************)
(* The state.                                                              *)
(***************************************************************************)
VARIABLES
    \* the daemon's object graph and a caller enumerating it
    graph,      \* the daemon's managed objects
    pc,         \* the caller: "idle", inside "list_item", or "done" (a call returned)
    call,       \* the call in progress or just returned: [op, arg]
    cand,       \* list_item: the snapshot's paths publishing item_interface, not yet visited
    v,          \* list_item: the paths pushed so far
    result,     \* what the call returned
    fault,      \* history: how the bus failed the call ("none" if it did not)
    moved,      \* history: the daemon changed the graph during the call
    snap,       \* history: the snapshot's children among the objects still to be read
    differs,    \* history: a read decided a push otherwise than the snapshot would
    readded,    \* history: during the call an object came back at a path still to be read
    \* the daemon's adapter and a caller's discovery session
    bluez,      \* the daemon's adapter: [present, powered, discovering]
    dsAdapter,  \* BluetoothDiscoverySession.adapter
    dpc,        \* the caller: "running", "panicked", or "dropped" (the session handle is gone)
    last,       \* the discovery session's latest call
    prev,       \* the discovery session's call before it: [op, res, sent]
    legacy,     \* the adapter proxy's latest start_discovery/stop_discovery call
    \* an OBEX transfer of the daemon and wait_until_transfer_completed
    status,     \* the daemon's Status property of the transfer
    ticks,      \* 500 ms ticks the daemon has taken since the wait began
    termTick,   \* history: the tick at which Status became complete or error, or -1
    phase,      \* whose turn it is within a tick: "daemon" or "poll"
    wpc,        \* the poller: "first" (before its first poll), "loop", "returned"
    transfer_status, \* the poller's local transfer_status
    polls,      \* history: the status polls made
    lastPoll,   \* history: what the latest poll reported, "failed" if it failed
    wres,       \* what wait_until_transfer_completed returned
    stat,       \* the latest call of status(): [kind, value, res]
    \* a session's connection and a caller of incoming
    filters,    \* the receivers installed on the connection, oldest first: callback ids
    queue,      \* the signal messages the connection holds, not yet handled
    signals,    \* history: the signal messages delivered so far
    incomings,  \* history: the calls of incoming so far
    spc,        \* the caller: "idle", or "driving" (inside incoming, receiver installed)
    cur,        \* the latest call of incoming, see IncomingStart
    sres,       \* what the latest call of incoming returned
    stale,      \* history: a callback was invoked after its call of incoming returned
    \* the daemon's Modalias property of an adapter and a caller reading it
    modalias,   \* what a read of Modalias comes back with: [kind, text]
    mcall,      \* the getter called, "none" before the call
    mres,       \* what the getter returned
    \* the daemon's adapter and GATT objects and the proxies a caller holds
    gatt,       \* the daemon: [present, value, notifying, alias]
    proxy,      \* the object paths of the caller's proxies: [adapter, characteristic, descriptor]
    gcall,      \* the latest proxy call, see GattReturn
    connections \* history: the bus connections opened so far, the session's included

enumVars == <<graph, pc, call, cand, v, result, fault, moved, snap, differs, readded>>
discVars == <<bluez, dsAdapter, dpc, last, prev, legacy>>
xferVars == <<status, ticks, termTick, phase, wpc, transfer_status, polls, lastPoll, wres, stat>>
sessVars == <<filters, queue, signals, incomings, spc, cur, sres, stale>>
modVars == <<modalias, mcall, mres>>
gattVars == <<gatt, proxy, gcall, connections>>
restVars == <<modVars, gattVars>>

(***************************************************************************)
(* Result<T, BlurzError>, and a panic (an unwrap() on Err or None).        *)
(***************************************************************************)
Ok(x) == [kind |-> "Ok", val |-> x]
Err(e) == [kind |-> "Err", err |-> e]
Panic == [kind |-> "Panic"]
NoResult == [kind |-> "None"]

DbusError == <<"DbusError">>
AdapterNotFound == <<"AdapterNotFound">>

(***************************************************************************)
(* dbus::arg::messageitem::MessageItem, as far as the library uses it.     *)
(***************************************************************************)
Str(s) == [t |-> "Str", v |-> s]
ObjectPath(p) == [t |-> "ObjectPath", v |-> p]
Int16(n) == [t |-> "Int16", v |-> n]
UInt16(n) == [t |-> "UInt16", v |-> n]
Variant(x) == [t |-> "Variant", v |-> x]

\* MessageItem::inner::<&str>(): a Str or an ObjectPath yields its text.
inner_str(item) ==
    IF item.t \in {"Str", "ObjectPath"} THEN Ok(item.v) ELSE Err("()")

ADAPTER_INTERFACE == "org.bluez.Adapter1"
DEVICE_INTERFACE == "org.bluez.Device1"
SERVICE_INTERFACE == "org.bluez.GattService1"
CHARACTERISTIC_INTERFACE == "org.bluez.GattCharacteristic1"
DESCRIPTOR_INTERFACE == "org.bluez.GattDescriptor1"

(***************************************************************************)
(* The daemon's managed objects: a sequence, in the daemon's enumeration   *)
(* order, of (path, interfaces), interfaces mapping each published         *)
(* interface name to its property dictionary.                              *)
(***************************************************************************)
MaxObjects == 2

Paths == {"/hci0", "/hci1", "/hci0/dev1"}
ParentPaths == {"/hci0", "/hci1"}
Interfaces == {ADAPTER_INTERFACE, DEVICE_INTERFACE}

EmptyDict == [x \in {} |-> x]

PropDicts(i) ==
    IF i = DEVICE_INTERFACE
    THEN {("Adapter" :> ObjectPath(q)) : q \in ParentPaths}
    ELSE {EmptyDict}

InterfaceMaps ==
    UNION { {f \in [S -> UNION {PropDicts(i) : i \in S}] :
                \A i \in S : f[i] \in PropDicts(i)} : S \in SUBSET Interfaces }

ManagedObjects == {[path |-> p, interfaces |-> f] : p \in Paths, f \in InterfaceMaps}

NoCall == [op |-> "none", arg |-> ""]

(***************************************************************************)
(* bluetooth_utils                                                         *)
(***************************************************************************)
\* The replies the transport can hand to get_managed_objects: an error, a
\* reply without payload, or the graph.
ManagedObjectsReplies(g) ==
    { [ok |-> FALSE, items |-> <<>>],
      [ok |-> TRUE, items |-> <<>>],
      [ok |-> TRUE, items |-> <<g>>] }

ReplyFault(reply) ==
    IF ~reply.ok THEN "bus_error"
    ELSE IF reply.items = <<>> THEN "no_payload" ELSE "none"

get_managed_objects(reply) ==
    IF reply.ok THEN Ok(reply.items) ELSE Err(DbusError)

\* The inner loop of get_adapters and list_item over one object's interfaces.
Publishes(interfaces, name) == \E i \in DOMAIN interfaces : i = name

PushAny(adapters, object) ==
    IF DOMAIN object.interfaces # {} THEN Append(adapters, object.path) ELSE adapters

PushAdapter(adapters, object) ==
    IF Publishes(object.interfaces, ADAPTER_INTERFACE)
    THEN Append(adapters, object.path)
    ELSE adapters

RECURSIVE get_adapters_loop(_, _)
get_adapters_loop(z, adapters) ==
    IF z = <<>> THEN adapters
    ELSE get_adapters_loop(Tail(z), PushAdapter(adapters, Head(z)))

get_adapters(reply) ==
    LET objects == get_managed_objects(reply) IN
    IF objects.kind # "Ok" THEN objects
    ELSE IF objects.val = <<>> THEN Panic
    ELSE Ok(get_adapters_loop(objects.val[1], <<>>))

\* org.freedesktop.DBus.Properties.Get as the daemon answers it.
DaemonGet(g, interface, object_path, prop) ==
    IF \E k \in 1..Len(g) :
          /\ g[k].path = object_path
          /\ interface \in DOMAIN g[k].interfaces
          /\ prop \in DOMAIN g[k].interfaces[interface]
    THEN LET k == CHOOSE k \in 1..Len(g) : g[k].path = object_path
         IN Ok(g[k].interfaces[interface][prop])
    ELSE Err(DbusError)

get_property(g, lost, interface, object_path, prop) ==
    IF lost THEN Err(DbusError) ELSE DaemonGet(g, interface, object_path, prop)

list_devices == [interface |-> DEVICE_INTERFACE, property |-> "Adapter"]
list_services == [interface |-> SERVICE_INTERFACE, property |-> "Device"]
list_characteristics == [interface |-> CHARACTERISTIC_INTERFACE, property |-> "Service"]
list_descriptors == [interface |-> DESCRIPTOR_INTERFACE, property |-> "Characteristic"]

Listings ==
    [list_devices |-> list_devices, list_services |-> list_services,
     list_characteristics |-> list_characteristics,
     list_descriptors |-> list_descriptors]

\* list_item's outer and inner loops visit, in snapshot order, the objects
\* that publish item_interface: only their paths are used afterwards.
RECURSIVE Candidates(_, _)
Candidates(z, item_interface) ==
    IF z = <<>> THEN <<>>
    ELSE IF Publishes(Head(z).interfaces, item_interface)
    THEN <<Head(z).path>> \o Candidates(Tail(z), item_interface)
    ELSE Candidates(Tail(z), item_interface)

\* The children of item_path as the snapshot itself describes them.
RECURSIVE SnapshotChildren(_, _, _, _)
SnapshotChildren(z, item_interface, item_property, item_path) ==
    IF z = <<>> THEN <<>>
    ELSE LET rest == SnapshotChildren(Tail(z), item_interface, item_property, item_path)
             i == Head(z).interfaces
         IN IF /\ Publishes(i, item_interface)
               /\ item_property \in DOMAIN i[item_interface]
               /\ i[item_interface][item_property].v = item_path
            THEN <<Head(z).path>> \o rest
            ELSE rest

PushAlways(acc, objpath, prop_path, item_path) == Append(acc, objpath)

PushChild(acc, objpath, prop_path, item_path) ==
    IF prop_path = item_path THEN Append(acc, objpath) ELSE acc

list_item_visit_skipping(acc, objpath, prop, item_path) ==
    IF prop.kind # "Ok"
    THEN [ret |-> FALSE, res |-> NoResult, v |-> acc, fault |-> "bus_error"]
    ELSE LET prop_path == inner_str(prop.val)
         IN IF prop_path.kind # "Ok"
            THEN [ret |-> TRUE, res |-> Panic, v |-> acc, fault |-> "bad_type"]
            ELSE [ret |-> FALSE, res |-> NoResult,
                  v |-> PushChild(acc, objpath, prop_path.val, item_path),
                  fault |-> "none"]

\* list_item's body for one object that publishes item_interface, given the
\* reply to the read of its parent property: return the error, panic on a
\* value that is no string, or push and go on.
list_item_visit(acc, objpath, prop, item_path) ==
    IF prop.kind # "Ok"
    THEN [ret |-> TRUE, res |-> prop, v |-> acc, fault |-> "bus_error"]
    ELSE LET prop_path == inner_str(prop.val)
         IN IF prop_path.kind # "Ok"
            THEN [ret |-> TRUE, res |-> Panic, v |-> acc, fault |-> "bad_type"]
            ELSE [ret |-> FALSE, res |-> NoResult,
                  v |-> PushChild(acc, objpath, prop_path.val, item_path),
                  fault |-> "none"]

(***************************************************************************)
(* bluetooth_adapter                                                       *)
(***************************************************************************)
init_last(reply) ==
    LET adapters == get_adapters(reply) IN
    IF adapters.kind # "Ok" THEN adapters
    ELSE IF adapters.val = <<>> THEN Err(AdapterNotFound)
    ELSE Ok(adapters.val[Len(adapters.val)])

init(reply) ==
    LET adapters == get_adapters(reply) IN
    IF adapters.kind # "Ok" THEN adapters
    ELSE IF adapters.val = <<>> THEN Err(AdapterNotFound)
    ELSE Ok(adapters.val[1])

create_adapter_any(reply, object_path) ==
    LET objects == get_managed_objects(reply) IN
    IF objects.kind # "Ok" THEN objects
    ELSE IF objects.val = <<>> THEN Panic
    ELSE IF \E k \in 1..Len(objects.val[1]) : objects.val[1][k].path = object_path
    THEN Ok(object_path)
    ELSE Err(AdapterNotFound)

create_adapter(reply, object_path) ==
    LET adapters == get_adapters(reply) IN
    IF adapters.kind # "Ok" THEN adapters
    ELSE IF \E k \in 1..Len(adapters.val) : adapters.val[k] = object_path
    THEN Ok(adapters.val[CHOOSE k \in 1..Len(adapters.val) :
                            adapters.val[k] = object_path])
    ELSE Err(AdapterNotFound)

\* The constructors that take the object path as it is given:
\* BluetoothDiscoverySession::create_session and the GATT proxies' new.
ProxyConstructors ==
    {"discovery_session.create_session", "gatt_service.new",
     "gatt_characteristic.new", "gatt_descriptor.new"}

proxy_new(object_path) == Ok(object_path)

NoDeviceFound == <<"NoDeviceFound">>

get_device_list_nonempty(devices) ==
    IF devices.kind = "Ok" /\ devices.val = <<>> THEN Err(NoDeviceFound) ELSE devices

\* get_device_list hands on what list_devices returned.
get_device_list(devices) == devices

\* get_first_device after its call of list_devices.
get_first_device(devices) ==
    IF devices.kind # "Ok" THEN devices
    ELSE IF devices.val = <<>> THEN Err(NoDeviceFound)
    ELSE Ok(devices.val[1])

\* The calls that run list_item: the four listings of bluetooth_utils and
\* the adapter's two methods over list_devices.
\* The operations that return what a listing returns: the listing itself and
\* the adapter's operations that do nothing before they call list_devices.
Callers(listing) ==
    IF listing = "list_devices"
    THEN {"list_devices", "get_device_list", "get_first_device"}
    ELSE {listing}

\* What the caller of op gets once list_item returned r.
enumeration_result(op, r) ==
    CASE op = "get_device_list" -> get_device_list(r)
      [] op = "get_first_device" -> get_first_device(r)
      [] OTHER -> r

(***************************************************************************)
(* The daemon adds and removes objects.                                    *)
(***************************************************************************)
GraphPaths(g) == {g[k].path : k \in 1..Len(g)}

RemoveAt(s, k) == SubSeq(s, 1, k - 1) \o SubSeq(s, k + 1, Len(s))

ObjectAdded ==
    /\ pc \in {"idle", "list_item"}
    /\ Len(graph) < MaxObjects
    /\ \E o \in ManagedObjects :
          /\ o.path \notin GraphPaths(graph)
          /\ graph' = Append(graph, o)
          /\ readded' = (readded \/ \E i \in 1..Len(cand) : cand[i] = o.path)
    /\ moved' = (pc = "list_item")
    /\ UNCHANGED <<pc, call, cand, v, result, fault, snap, differs>>
    /\ UNCHANGED <<discVars, xferVars, sessVars, restVars>>

ObjectRemoved ==
    /\ pc \in {"idle", "list_item"}
    /\ \E k \in 1..Len(graph) : graph' = RemoveAt(graph, k)
    /\ moved' = (pc = "list_item")
    /\ UNCHANGED <<pc, call, cand, v, result, fault, snap, differs, readded>>
    /\ UNCHANGED <<discVars, xferVars, sessVars, restVars>>

(***************************************************************************)
(* The caller's operations.                                                *)
(***************************************************************************)
GetAdapters ==
    /\ pc = "idle"
    /\ \E reply \in ManagedObjectsReplies(graph) :
          /\ result' = get_adapters(reply)
          /\ fault' = ReplyFault(reply)
    /\ call' = [op |-> "get_adapters", arg |-> ""]
    /\ pc' = "done"
    /\ UNCHANGED <<graph, cand, v, moved, snap, differs, readded>>
    /\ UNCHANGED <<discVars, xferVars, sessVars, restVars>>

AdapterInit ==
    /\ pc = "idle"
    /\ \E reply \in ManagedObjectsReplies(graph) :
          /\ result' = init(reply)
          /\ fault' = ReplyFault(reply)
    /\ call' = [op |-> "init", arg |-> ""]
    /\ pc' = "done"
    /\ UNCHANGED <<graph, cand, v, moved, snap, differs, readded>>
    /\ UNCHANGED <<discVars, xferVars, sessVars, restVars>>

AdapterCreate ==
    /\ pc = "idle"
    /\ \E object_path \in Paths, reply \in ManagedObjectsReplies(graph) :
          /\ result' = create_adapter(reply, object_path)
          /\ fault' = ReplyFault(reply)
          /\ call' = [op |-> "create_adapter", arg |-> object_path]
    /\ pc' = "done"
    /\ UNCHANGED <<graph, cand, v, moved, snap, differs, readded>>
    /\ UNCHANGED <<discVars, xferVars, sessVars, restVars>>

ProxyNew ==
    /\ pc = "idle"
    /\ \E op \in ProxyConstructors, object_path \in Paths \cup {""} :
          /\ result' = proxy_new(object_path)
          /\ call' = [op |-> op, arg |-> object_path]
    /\ fault' = "none"
    /\ pc' = "done"
    /\ UNCHANGED <<graph, cand, v, moved, snap, differs, readded>>
    /\ UNCHANGED <<discVars, xferVars, sessVars, restVars>>

\* A listing up to list_item's loop: the snapshot of the managed objects.
\* Which caller of list_devices is running shows only in what it does with the
\* returned list, so call.op names the listing until the call returns.
ListItemStart ==
    /\ pc = "idle"
    /\ \E op \in DOMAIN Listings, item_path \in ParentPaths,
          reply \in ManagedObjectsReplies(graph) :
          LET objects == get_managed_objects(reply) IN
          /\ fault' = ReplyFault(reply)
          /\ IF objects.kind # "Ok"
             THEN /\ pc' = "done"
                  /\ \E caller \in Callers(op) :
                        /\ call' = [op |-> caller, arg |-> item_path]
                        /\ result' = enumeration_result(caller, objects)
                  /\ cand' = <<>>
                  /\ snap' = <<>>
             ELSE IF objects.val = <<>>
             THEN /\ pc' = "done"
                  /\ \E caller \in Callers(op) :
                        /\ call' = [op |-> caller, arg |-> item_path]
                        /\ result' = Panic
                  /\ cand' = <<>>
                  /\ snap' = <<>>
             ELSE /\ pc' = "list_item"
                  /\ call' = [op |-> op, arg |-> item_path]
                  /\ result' = NoResult
                  /\ cand' = Candidates(objects.val[1], Listings[op].interface)
                  /\ snap' = SnapshotChildren(objects.val[1], Listings[op].interface,
                                              Listings[op].property, item_path)
    /\ v' = <<>>
    /\ moved' = FALSE
    /\ differs' = FALSE
    /\ readded' = FALSE
    /\ UNCHANGED graph
    /\ UNCHANGED <<discVars, xferVars, sessVars, restVars>>

\* list_item's loop up to and including the next object that publishes
\* item_interface, whose parent property is read from the daemon; or the
\* return when no such object is left.
ListItemStep ==
    /\ pc = "list_item"
    /\ LET item_interface == Listings[call.op].interface
           item_property == Listings[call.op].property
       IN IF cand = <<>>
          THEN /\ pc' = "done"
               /\ \E caller \in Callers(call.op) :
                     /\ call' = [call EXCEPT !.op = caller]
                     /\ result' = enumeration_result(caller, Ok(v))
               /\ UNCHANGED <<v, fault, snap, differs>>
               /\ cand' = <<>>
          ELSE \E lost \in BOOLEAN :
               LET objpath == Head(cand)
                   prop == get_property(graph, lost, item_interface, objpath, item_property)
                   step == list_item_visit(v, objpath, prop, call.arg)
                   child == snap # <<>> /\ Head(snap) = objpath
               IN IF step.ret
                  THEN /\ pc' = "done"
                       /\ \E caller \in Callers(call.op) :
                             /\ call' = [call EXCEPT !.op = caller]
                             /\ result' = enumeration_result(caller, step.res)
                       /\ fault' = step.fault
                       /\ UNCHANGED <<v, differs>>
                       /\ cand' = <<>>
                       /\ snap' = <<>>
                  ELSE /\ v' = step.v
                       /\ cand' = Tail(cand)
                       /\ fault' = IF step.fault # "none" THEN step.fault ELSE fault
                       /\ snap' = IF child THEN Tail(snap) ELSE snap
                       /\ differs' = (differs \/ (step.v # v) # child)
                       /\ UNCHANGED <<pc, result, call>>
    /\ UNCHANGED <<graph, moved, readded>>
    /\ UNCHANGED <<discVars, xferVars, sessVars, restVars>>

\* The caller takes the result.
Return ==
    /\ pc = "done"
    /\ pc' = "idle"
    /\ call' = NoCall
    /\ result' = NoResult
    /\ fault' = "none"
    /\ moved' = FALSE
    /\ snap' = <<>>
    /\ differs' = FALSE
    /\ readded' = FALSE
    /\ cand' = <<>>
    /\ v' = <<>>
    /\ UNCHANGED graph
    /\ UNCHANGED <<discVars, xferVars, sessVars, restVars>>

EnumInit ==
    /\ graph = <<>>
    /\ pc = "idle"
    /\ call = NoCall
    /\ cand = <<>>
    /\ v = <<>>
    /\ result = NoResult
    /\ fault = "none"
    /\ moved = FALSE
    /\ snap = <<>>
    /\ differs = FALSE
    /\ readded = FALSE

EnumNext ==
    \/ ObjectAdded
    \/ ObjectRemoved
    \/ GetAdapters
    \/ AdapterInit
    \/ AdapterCreate
    \/ ProxyNew
    \/ ListItemStart
    \/ ListItemStep
    \/ Return

(***************************************************************************)
(* The adapter object of the daemon, its discovery methods, and the        *)
(* transport between the library and the daemon.                           *)
(***************************************************************************)
MaxUuids == 1

Unit == "()"
UnkownError == <<"UnkownError">>
DeprecatedFeature(name) == <<"DeprecatedFeature", name>>

None == [some |-> FALSE]
Some(x) == [some |-> TRUE, val |-> x]

AdapterPath == "/hci0"
Uuids == <<"00001812", "0000180f", "00001800">>
UuidLists == {SubSeq(Uuids, 1, n) : n \in 0..MaxUuids}
RssiValues == {None, Some(-80)}
PathlossValues == {None, Some(5)}

\* What one call did: its result, the requests it sent, the daemon afterwards.
Effect(res, sent, st) == [res |-> res, sent |-> sent, st |-> st]

\* org.bluez.Adapter1 as the daemon serves it: StartDiscovery sets the
\* Discovering flag, StopDiscovery clears it and fails when no discovery is
\* running; every method fails on a vanished or powered-off adapter.
DaemonAdapterCall(st, m) ==
    IF ~st.present \/ m.path # AdapterPath THEN [ok |-> FALSE, st |-> st]
    ELSE IF m.method = "SetDiscoveryFilter" THEN [ok |-> TRUE, st |-> st]
    ELSE IF ~st.powered THEN [ok |-> FALSE, st |-> st]
    ELSE IF m.method = "StartDiscovery"
    THEN IF st.discovering THEN [ok |-> FALSE, st |-> st]
         ELSE [ok |-> TRUE, st |-> [st EXCEPT !.discovering = TRUE]]
    ELSE IF m.method = "StopDiscovery"
    THEN IF st.discovering THEN [ok |-> TRUE, st |-> [st EXCEPT !.discovering = FALSE]]
         ELSE [ok |-> FALSE, st |-> st]
    ELSE [ok |-> FALSE, st |-> st]

\* send_with_reply_and_block: the request is delivered and answered, or it
\* is served but the reply misses the deadline, or it is lost.
NetOutcomes == {"delivered", "late", "lost"}

send_with_reply_and_block(st, net, m) ==
    IF net = "lost" THEN [ok |-> FALSE, st |-> st]
    ELSE IF net = "late" THEN [ok |-> FALSE, st |-> DaemonAdapterCall(st, m).st]
    ELSE DaemonAdapterCall(st, m)

\* Message::new_method_call rejects a string that is no object path.
ValidObjectPath(p) == p # ""

(***************************************************************************)
(* MessageItem signatures, arrays and dictionaries (dbus crate).           *)
(***************************************************************************)
Signature(item) ==
    CASE item.t = "Str" -> <<"s">>
      [] item.t = "ObjectPath" -> <<"o">>
      [] item.t = "Int16" -> <<"n">>
      [] item.t = "UInt16" -> <<"q">>
      [] item.t = "Variant" -> <<"v">>
      [] OTHER -> item.sig

\* MessageItem::new_array: the items must be of one type, and at least one.
new_array(items) ==
    IF items = <<>> THEN Err("EmptyArray")
    ELSE IF \E i \in 1..Len(items) : Signature(items[i]) # Signature(items[1])
    THEN Err("DifferentElementTypes")
    ELSE Ok([t |-> "Array", sig |-> <<"a">> \o Signature(items[1]), v |-> items])

\* impl From<Box<MessageItem>> for MessageItem: the boxed item as a variant.
FromBox(item) == Variant(item)

\* MessageItemDict::new: every key and value must have the given signature.
MessageItemDict_new(m, keysig, valuesig) ==
    IF \E i \in 1..Len(m) : Signature(m[i][1]) # keysig \/ Signature(m[i][2]) # valuesig
    THEN Err("DifferentElementTypes")
    ELSE Ok([t |-> "Dict", sig |-> <<"a", "{">> \o keysig \o valuesig \o <<"}">>, v |-> m])

(***************************************************************************)
(* bluetooth_discovery_session                                             *)
(***************************************************************************)
ds_call_method_swallow(adapter, st, net, method, param) ==
    IF ~ValidObjectPath(adapter) THEN Effect(Err(UnkownError), <<>>, st)
    ELSE LET m == [path |-> adapter, interface |-> ADAPTER_INTERFACE,
                   method |-> method, items |-> param]
             r == send_with_reply_and_block(st, net, m)
         IN Effect(Ok(Unit), <<m>>, r.st)

ds_call_method(adapter, st, net, method, param) ==
    IF ~ValidObjectPath(adapter) THEN Effect(Err(UnkownError), <<>>, st)
    ELSE LET m == [path |-> adapter, interface |-> ADAPTER_INTERFACE,
                   method |-> method, items |-> param]
             r == send_with_reply_and_block(st, net, m)
         IN IF r.ok THEN Effect(Ok(Unit), <<m>>, r.st)
            ELSE Effect(Err(DbusError), <<m>>, r.st)

ds_start_discovery(adapter, st, net) ==
    ds_call_method(adapter, st, net, "StartDiscovery", <<>>)

ds_stop_discovery(adapter, st, net) ==
    ds_call_method(adapter, st, net, "StopDiscovery", <<>>)

set_discovery_filter(adapter, st, net, uuids, rssi, pathloss) ==
    LET res == [i \in 1..Len(uuids) |-> Str(uuids[i])]
        array == new_array(res)
    IN IF array.kind # "Ok" THEN Effect(Panic, <<>>, st)
       ELSE
       LET m0 == << <<FromBox(Str("UUIDs")), Variant(array.val)>> >>
           m1 == IF rssi.some
                 THEN Append(m0, <<FromBox(Str("RSSI")), Variant(Int16(rssi.val))>>)
                 ELSE m0
           m2 == IF pathloss.some
                 THEN Append(m1, <<FromBox(Str("Pathloss")), Variant(UInt16(pathloss.val))>>)
                 ELSE m1
           dict == MessageItemDict_new(m2, <<"s">>, <<"v">>)
       IN IF dict.kind # "Ok" THEN Effect(Panic, <<>>, st)
          ELSE ds_call_method(adapter, st, net, "SetDiscoveryFilter", <<dict.val>>)

drop_session_stopping(adapter, st) ==
    ds_stop_discovery(adapter, st, "delivered")

\* The session handle goes out of scope: BluetoothDiscoverySession has no
\* Drop implementation, its fields (a String and a reference) send nothing.
drop_session(adapter, st) == Effect(Ok(Unit), <<>>, st)

(***************************************************************************)
(* bluetooth_adapter: the legacy discovery methods                         *)
(***************************************************************************)
adapter_call_method(object_path, st, net, method) ==
    IF ~ValidObjectPath(object_path) THEN Effect(Err(UnkownError), <<>>, st) ELSE
    LET m == [path |-> object_path, interface |-> ADAPTER_INTERFACE,
              method |-> method, items |-> <<>>]
        r == send_with_reply_and_block(st, net, m)
    IN IF r.ok THEN Effect(Ok(Unit), <<m>>, r.st)
       ELSE Effect(Err(DbusError), <<m>>, r.st)

start_discovery_forwarded(object_path, st, net) ==
    adapter_call_method(object_path, st, net, "StartDiscovery")

start_discovery(object_path, st, net) ==
    Effect(Err(DeprecatedFeature("Discovery Session")), <<>>, st)

stop_discovery(object_path, st, net) ==
    Effect(Err(DeprecatedFeature("Discovery Session")), <<>>, st)

(***************************************************************************)
(* The daemon's adapter changes on its own.                                *)
(***************************************************************************)
AdapterPowered ==
    /\ bluez.present
    /\ \E on \in BOOLEAN :
          /\ on # bluez.powered
          /\ bluez' = [bluez EXCEPT !.powered = on,
                                    !.discovering = on /\ bluez.discovering]
    /\ UNCHANGED <<dsAdapter, dpc, last, prev, legacy>>
    /\ UNCHANGED <<enumVars, xferVars, sessVars, restVars>>

AdapterVanished ==
    /\ bluez.present
    /\ bluez' = [present |-> FALSE, powered |-> FALSE, discovering |-> FALSE]
    /\ UNCHANGED <<dsAdapter, dpc, last, prev, legacy>>
    /\ UNCHANGED <<enumVars, xferVars, sessVars, restVars>>

AdapterAppeared ==
    /\ ~bluez.present
    /\ bluez' = [present |-> TRUE, powered |-> FALSE, discovering |-> FALSE]
    /\ UNCHANGED <<dsAdapter, dpc, last, prev, legacy>>
    /\ UNCHANGED <<enumVars, xferVars, sessVars, restVars>>

(***************************************************************************)
(* The caller's discovery operations.                                      *)
(***************************************************************************)
NoDsCall == [op |-> "none"]

DsCall(op, args, e) ==
    [op |-> op, args |-> args, res |-> e.res, sent |-> e.sent,
     before |-> bluez.discovering, after |-> e.st.discovering]

DsReturn(op, args, e) ==
    /\ last' = DsCall(op, args, e)
    /\ prev' = IF last.op = "none" THEN NoDsCall
               ELSE [op |-> last.op, res |-> last.res, sent |-> last.sent]
    /\ bluez' = e.st
    /\ dpc' = IF e.res = Panic THEN "panicked" ELSE "running"
    /\ UNCHANGED <<dsAdapter, legacy>>
    /\ UNCHANGED <<enumVars, xferVars, sessVars, restVars>>

DsStartDiscovery ==
    /\ dpc = "running"
    /\ \E net \in NetOutcomes :
          DsReturn("start_discovery", <<>>, ds_start_discovery(dsAdapter, bluez, net))

DsStopDiscovery ==
    /\ dpc = "running"
    /\ \E net \in NetOutcomes :
          DsReturn("stop_discovery", <<>>, ds_stop_discovery(dsAdapter, bluez, net))

DsSetDiscoveryFilter ==
    /\ dpc = "running"
    /\ \E net \in NetOutcomes, uuids \in UuidLists,
          rssi \in RssiValues, pathloss \in PathlossValues :
          DsReturn("set_discovery_filter", <<uuids, rssi, pathloss>>,
                   set_discovery_filter(dsAdapter, bluez, net, uuids, rssi, pathloss))

DsDrop ==
    /\ dpc = "running"
    /\ LET e == drop_session(dsAdapter, bluez)
       IN /\ last' = DsCall("drop", <<>>, e)
          /\ bluez' = e.st
    /\ prev' = IF last.op = "none" THEN NoDsCall
               ELSE [op |-> last.op, res |-> last.res, sent |-> last.sent]
    /\ dpc' = "dropped"
    /\ UNCHANGED <<dsAdapter, legacy>>
    /\ UNCHANGED <<enumVars, xferVars, sessVars, restVars>>

LegacyReturn(op, e) ==
    /\ legacy' = [op |-> op, res |-> e.res, sent |-> e.sent,
                  before |-> bluez, after |-> e.st]
    /\ bluez' = e.st
    /\ UNCHANGED <<dsAdapter, dpc, last, prev>>
    /\ UNCHANGED <<enumVars, xferVars, sessVars, restVars>>

AdapterStartDiscovery ==
    /\ dpc = "running"
    /\ \E net \in NetOutcomes :
          LegacyReturn("start_discovery", start_discovery(AdapterPath, bluez, net))

AdapterStopDiscovery ==
    /\ dpc = "running"
    /\ \E net \in NetOutcomes :
          LegacyReturn("stop_discovery", stop_discovery(AdapterPath, bluez, net))

DiscInit ==
    /\ bluez = [present |-> TRUE, powered |-> FALSE, discovering |-> FALSE]
    /\ dsAdapter \in {AdapterPath, ""}
    /\ dpc = "running"
    /\ last = NoDsCall
    /\ prev = NoDsCall
    /\ legacy = NoDsCall

DiscNext ==
    \/ AdapterPowered
    \/ AdapterVanished
    \/ AdapterAppeared
    \/ DsStartDiscovery
    \/ DsStopDiscovery
    \/ DsSetDiscoveryFilter
    \/ DsDrop
    \/ AdapterStartDiscovery
    \/ AdapterStopDiscovery

(***************************************************************************)
(* bluetooth_obex: a transfer's status and the poller                      *)
(***************************************************************************)
MaxTicks == 5

FailedToGetStatus == <<"FailedToGetStatus">>

\* TransferState::as_str
TransferState ==
    [Queued |-> "queued", Active |-> "active", Complete |-> "complete",
     Suspended |-> "suspended", Error |-> "error"]

TransferStates == {TransferState[k] : k \in DOMAIN TransferState}
TerminalStates == {TransferState.Complete, TransferState.Error}

\* The strings the daemon may publish as Status: the five states, and one
\* the library does not know.
DaemonStatuses == TransferStates \cup {"paused"}

\* The daemon's transfer within one tick: complete and error are final, the
\* other states follow one another in no fixed order.
NextStatus(st) == IF st \in TerminalStates THEN {st} ELSE DaemonStatuses

\* What a read of the Status property can come back with: a bus error, the
\* status string, or a value that is no string.
StatusReplyKinds == {"bus_error", "string", "not_string"}

StatusReply(kind, st) ==
    CASE kind = "bus_error" -> [ok |-> FALSE, item |-> Str("")]
      [] kind = "string" -> [ok |-> TRUE, item |-> Str(st)]
      [] kind = "not_string" -> [ok |-> TRUE, item |-> UInt16(0)]

transfer_status_of(reply) ==
    IF ~reply.ok THEN Err(DbusError)
    ELSE LET value == inner_str(reply.item)
         IN IF value.kind = "Ok" THEN Ok(value.val) ELSE Err(FailedToGetStatus)

first_poll_no_wait(r) ==
    IF r.kind # "Ok" THEN [pc |-> "returned", transfer_status |-> "", res |-> r]
    ELSE [pc |-> "returned", transfer_status |-> r.val, res |-> Ok(Unit)]

\* wait_until_transfer_completed from its first poll to the loop's test.
first_poll(r) ==
    IF r.kind # "Ok" THEN [pc |-> "returned", transfer_status |-> "", res |-> r]
    ELSE IF r.val # TransferState.Complete
    THEN [pc |-> "loop", transfer_status |-> r.val, res |-> NoResult]
    ELSE [pc |-> "returned", transfer_status |-> r.val, res |-> Ok(Unit)]

\* One turn of the loop: the poll, the break on error or on a failed poll,
\* and the loop's test.
loop_poll_no_break(r, current) ==
    IF r.kind # "Ok" THEN [pc |-> "loop", transfer_status |-> current, res |-> NoResult]
    ELSE IF r.val # TransferState.Complete
    THEN [pc |-> "loop", transfer_status |-> r.val, res |-> NoResult]
    ELSE [pc |-> "returned", transfer_status |-> r.val, res |-> Ok(Unit)]

loop_poll(r, current) ==
    IF r.kind # "Ok" THEN [pc |-> "returned", transfer_status |-> current, res |-> Ok(Unit)]
    ELSE IF r.val = TransferState.Error
    THEN [pc |-> "returned", transfer_status |-> current, res |-> Ok(Unit)]
    ELSE IF r.val # TransferState.Complete
    THEN [pc |-> "loop", transfer_status |-> r.val, res |-> NoResult]
    ELSE [pc |-> "returned", transfer_status |-> r.val, res |-> Ok(Unit)]

\* A tick of the daemon; the poller, while it runs, polls once per tick.
TransferTick ==
    /\ phase = "daemon" \/ wpc = "returned"
    /\ ticks < MaxTicks
    /\ ticks' = ticks + 1
    /\ \E st \in NextStatus(status) :
          /\ status' = st
          /\ termTick' = IF termTick = -1 /\ st \in TerminalStates
                         THEN ticks + 1 ELSE termTick
    /\ phase' = "poll"
    /\ UNCHANGED <<wpc, transfer_status, polls, lastPoll, wres, stat>>
    /\ UNCHANGED <<enumVars, discVars, sessVars, restVars>>

Polled(step, kind, r) ==
    /\ stat' = [kind |-> kind, value |-> status, res |-> r]
    /\ wpc' = step.pc
    /\ transfer_status' = step.transfer_status
    /\ wres' = step.res
    /\ polls' = polls + 1
    /\ lastPoll' = IF r.kind = "Ok" THEN r.val ELSE "failed"
    /\ phase' = "daemon"
    /\ UNCHANGED <<status, ticks, termTick>>
    /\ UNCHANGED <<enumVars, discVars, sessVars, restVars>>

WaitFirstPoll ==
    /\ phase = "poll"
    /\ wpc = "first"
    /\ \E kind \in StatusReplyKinds :
          LET r == transfer_status_of(StatusReply(kind, status))
          IN Polled(first_poll(r), kind, r)

WaitLoopPoll ==
    /\ phase = "poll"
    /\ wpc = "loop"
    /\ \E kind \in StatusReplyKinds :
          LET r == transfer_status_of(StatusReply(kind, status))
          IN Polled(loop_poll(r, transfer_status), kind, r)

XferInit ==
    /\ status \in DaemonStatuses
    /\ ticks = 0
    /\ termTick = IF status \in TerminalStates THEN 0 ELSE -1
    /\ phase \in {"daemon", "poll"}
    /\ wpc = "first"
    /\ transfer_status = ""
    /\ polls = 0
    /\ lastPoll = "none"
    /\ wres = NoResult
    /\ stat = [kind |-> "none", value |-> "", res |-> NoResult]

XferIdle ==
    /\ status = TransferState.Queued
    /\ ticks = 0
    /\ termTick = -1
    /\ phase = "daemon"
    /\ wpc = "first"
    /\ transfer_status = ""
    /\ polls = 0
    /\ lastPoll = "none"
    /\ wres = NoResult
    /\ stat = [kind |-> "none", value |-> "", res |-> NoResult]

XferNext ==
    \/ TransferTick
    \/ WaitFirstPoll
    \/ WaitLoopPoll

(***************************************************************************)
(* bluetooth_session: incoming                                             *)
(***************************************************************************)
MaxSignals == 3
MaxIncoming == 3

\* Connection::process(timeout): handles the first message the connection
\* holds, handing it to the oldest receiver whose rule matches (every receiver
\* of incoming matches every message, and stays installed as its callback
\* returns true); with no message it waits out the timeout, or fails.
process(fs, q, io) ==
    IF q # <<>>
    THEN [res |-> Ok(TRUE), queue |-> Tail(q), invoked |-> <<[cb |-> fs[1], msg |-> Head(q)]>>]
    ELSE IF io = "error"
    THEN [res |-> Err(DbusError), queue |-> q, invoked |-> <<>>]
    ELSE [res |-> Ok(FALSE), queue |-> q, invoked |-> <<>>]

start_receive(fs, cb) == Append(fs, cb)

stop_receive(fs, receiver_id) == SelectSeq(fs, LAMBDA f : f # receiver_id)

\* incoming after start_receive: process(...)? and stop_receive.
incoming_drive(fs, q, io, receiver_id) ==
    LET p == process(fs, q, io) IN
    IF p.res.kind # "Ok"
    THEN [res |-> p.res, filters |-> fs, queue |-> p.queue, invoked |-> p.invoked]
    ELSE [res |-> Ok(Unit), filters |-> stop_receive(fs, receiver_id),
          queue |-> p.queue, invoked |-> p.invoked]

\* The daemon's signal reaches the connection.
SignalDelivered ==
    /\ signals < MaxSignals
    /\ signals' = signals + 1
    /\ queue' = Append(queue, signals + 1)
    /\ cur' = IF spc = "driving"
              THEN [cur EXCEPT !.window = Append(@, signals + 1)]
              ELSE cur
    /\ UNCHANGED <<filters, incomings, spc, sres, stale>>
    /\ UNCHANGED <<enumVars, discVars, xferVars, restVars>>

\* incoming up to process: the receiver is installed.  cur keeps the call's
\* callback, the messages waiting and the receivers installed when it began,
\* the messages delivered during it and those handed to its callback.
IncomingStart ==
    /\ spc = "idle"
    /\ incomings < MaxIncoming
    /\ incomings' = incomings + 1
    /\ filters' = start_receive(filters, incomings + 1)
    /\ cur' = [cb |-> incomings + 1, pending |-> queue, others |-> filters,
               window |-> <<>>, invoked |-> <<>>]
    /\ spc' = "driving"
    /\ sres' = NoResult
    /\ UNCHANGED <<queue, signals, stale>>
    /\ UNCHANGED <<enumVars, discVars, xferVars, restVars>>

IncomingReturn ==
    /\ spc = "driving"
    /\ \E io \in {"timeout", "error"} :
          LET r == incoming_drive(filters, queue, io, cur.cb)
              mine == SelectSeq(r.invoked, LAMBDA i : i.cb = cur.cb)
          IN /\ filters' = r.filters
             /\ queue' = r.queue
             /\ sres' = r.res
             /\ cur' = [cur EXCEPT !.invoked = [k \in 1..Len(mine) |-> mine[k].msg]]
             /\ stale' = (stale \/ \E k \in 1..Len(r.invoked) : r.invoked[k].cb # cur.cb)
    /\ spc' = "idle"
    /\ UNCHANGED <<signals, incomings>>
    /\ UNCHANGED <<enumVars, discVars, xferVars, restVars>>

SessInit ==
    /\ filters = <<>>
    /\ queue = <<>>
    /\ signals = 0
    /\ incomings = 0
    /\ spc = "idle"
    /\ cur = [cb |-> 0, pending |-> <<>>, others |-> <<>>, window |-> <<>>, invoked |-> <<>>]
    /\ sres = NoResult
    /\ stale = FALSE

SessNext ==
    \/ SignalDelivered
    \/ IncomingStart
    \/ IncomingReturn

(***************************************************************************)
(* The Modalias property of an adapter and its parser.  A string is the    *)
(* sequence of its characters.                                             *)
(***************************************************************************)
HexLower == <<"0", "1", "2", "3", "4", "5", "6", "7", "8", "9",
              "a", "b", "c", "d", "e", "f">>
HexUpper == <<"A", "B", "C", "D", "E", "F">>

IsHex(c) ==
    \/ \E i \in 1..Len(HexLower) : HexLower[i] = c
    \/ \E i \in 1..Len(HexUpper) : HexUpper[i] = c

HexVal(c) ==
    IF \E i \in 1..Len(HexLower) : HexLower[i] = c
    THEN (CHOOSE i \in 1..Len(HexLower) : HexLower[i] = c) - 1
    ELSE (CHOOSE i \in 1..Len(HexUpper) : HexUpper[i] = c) + 9

\* hex::FromHex for Vec<u8>: two digits a byte, an error on an odd length or
\* on a character that is no hex digit.
from_hex(s) ==
    IF Len(s) % 2 # 0 \/ \E i \in 1..Len(s) : ~IsHex(s[i])
    THEN Err(<<"FromHexError">>)
    ELSE Ok([k \in 1..(Len(s) \div 2) |->
                HexVal(s[2 * k - 1]) * 16 + HexVal(s[2 * k])])

\* str::split(sep).collect()
RECURSIVE split(_, _)
split(m, sep) ==
    IF \A i \in 1..Len(m) : m[i] # sep THEN <<m>>
    ELSE LET k == CHOOSE i \in 1..Len(m) :
                     m[i] = sep /\ \A j \in 1..(i - 1) : m[j] # sep
         IN <<SubSeq(m, 1, k - 1)>> \o split(SubSeq(m, k + 1, Len(m)), sep)

\* s[a..b] of a str: a panic when the range leaves the string.
slice(s, a, b) ==
    IF a > b \/ b > Len(s) THEN Panic ELSE Ok(SubSeq(s, a + 1, b))

\* s[a..b].to_string() handed to from_hex and unwrapped.
hex_field(s, a, b) ==
    LET f == slice(s, a, b) IN
    IF f.kind # "Ok" THEN Panic
    ELSE LET bytes == from_hex(f.val)
         IN IF bytes.kind # "Ok" THEN Panic ELSE bytes

le16(bytes) == bytes[2] * 16 * 16 + bytes[1]

be16(bytes) == bytes[1] * 16 * 16 + bytes[2]

get_modalias(reply) ==
    IF ~reply.ok THEN Err(DbusError) ELSE
    LET m == inner_str(reply.item) IN
    IF m.kind # "Ok" THEN Panic ELSE
    LET ids == split(m.val, ":") IN
    IF Len(ids) < 2 THEN Panic ELSE
    LET source == ids[1]
        vendor == hex_field(ids[2], 1, 5)
        product == hex_field(ids[2], 6, 10)
        device == hex_field(ids[2], 11, 15)
    IN IF vendor.kind # "Ok" \/ product.kind # "Ok" \/ device.kind # "Ok"
       THEN Panic
       ELSE Ok(<<source, be16(vendor.val), be16(product.val), be16(device.val)>>)

modalias_component(reply, k) ==
    LET r == get_modalias(reply) IN
    IF r.kind # "Ok" THEN r ELSE Ok(r.val[k])

get_vendor_id_source(reply) == modalias_component(reply, 1)
get_vendor_id(reply) == modalias_component(reply, 2)
get_product_id(reply) == modalias_component(reply, 3)
get_device_id(reply) == modalias_component(reply, 4)

\* The Modalias values the daemon may publish: well-formed ones, and ones
\* without the separator, with a short or non-hex field, or with other field
\* markers.
ModaliasSources == {<<"u", "s", "b">>, <<"b", "l", "u", "e", "t", "o", "o", "t", "h">>}
ModaliasSeparators == {<<":">>, <<>>}
ModaliasMarkers == {<<"v", "p", "d">>, <<"x", "p", "d">>, <<"v", "p", "D">>}
ModaliasFields ==
    {<<"1", "D", "6", "B">>, <<"0", "2", "4", "6">>, <<"0", "5", "2", "A">>,
     <<"f", "f", "f", "f">>, <<"0", "0", "0", "0">>,
     <<"1", "G", "6", "B">>, <<"0", "5">>}

ModaliasStrings ==
    {src \o sep \o <<k[1]>> \o f1 \o <<k[2]>> \o f2 \o <<k[3]>> \o f3 :
        src \in ModaliasSources, sep \in ModaliasSeparators, k \in ModaliasMarkers,
        f1 \in ModaliasFields, f2 \in ModaliasFields, f3 \in ModaliasFields}

\* The replies to the read of Modalias: a bus error, a string, a value that
\* is no string.
ModaliasReplyKinds == {"bus_error", "string", "not_string"}

ModaliasReply(kind, text) ==
    CASE kind = "bus_error" -> [ok |-> FALSE, item |-> Str(<<>>)]
      [] kind = "string" -> [ok |-> TRUE, item |-> Str(text)]
      [] kind = "not_string" -> [ok |-> TRUE, item |-> UInt16(0)]

ModaliasValues ==
    {[kind |-> "bus_error", text |-> <<>>], [kind |-> "not_string", text |-> <<>>]}
        \cup {[kind |-> "string", text |-> m] : m \in ModaliasStrings}

ModaliasCall(name, r) ==
    /\ mcall = "none"
    /\ mcall' = name
    /\ mres' = r
    /\ UNCHANGED modalias
    /\ UNCHANGED <<enumVars, discVars, xferVars, sessVars, gattVars>>

ModaliasRead == ModaliasReply(modalias.kind, modalias.text)

GetModalias == ModaliasCall("get_modalias", get_modalias(ModaliasRead))
GetVendorIdSource == ModaliasCall("get_vendor_id_source", get_vendor_id_source(ModaliasRead))
GetVendorId == ModaliasCall("get_vendor_id", get_vendor_id(ModaliasRead))
GetProductId == ModaliasCall("get_product_id", get_product_id(ModaliasRead))
GetDeviceId == ModaliasCall("get_device_id", get_device_id(ModaliasRead))

ModInit ==
    /\ modalias \in ModaliasValues
    /\ mcall = "none"
    /\ mres = NoResult

ModIdle == ModInit /\ modalias = [kind |-> "bus_error", text |-> <<>>]

ModNext ==
    \/ GetModalias
    \/ GetVendorIdSource
    \/ GetVendorId
    \/ GetProductId
    \/ GetDeviceId

(***************************************************************************)
(* The proxies' requests: the GATT ReadValue of a characteristic and of a  *)
(* descriptor, a property read, a property write and a method call, each   *)
(* with the requests it sends and the connections it opens.                *)
(***************************************************************************)
MaxBytes == 2
MaxConnections == 3

GATT_CHARACTERISTIC_INTERFACE == "org.bluez.GattCharacteristic1"
GATT_DESCRIPTOR_INTERFACE == "org.bluez.GattDescriptor1"

CharacteristicPath == "/hci0/dev1/s0/c0"
DescriptorPath == "/hci0/dev1/s0/c0/d0"

ByteValues == {222, 173}
ByteSeqs == UNION {[1..n -> ByteValues] : n \in 0..MaxBytes}
Aliases == {"hci0", "kitchen"}
Offsets == {None, Some(0), Some(5)}

Byte(n) == [t |-> "Byte", v |-> n]

\* MessageItem::inner::<u8>() and MessageItem::inner::<&[MessageItem]>()
inner_u8(item) == IF item.t = "Byte" THEN Ok(item.v) ELSE Err("()")
inner_array(item) == IF item.t = "Array" THEN Ok(item.v) ELSE Err("()")

\* What the daemon answers with for a byte-array value: the array, a value
\* of another type, or a reply without payload.
ReplyShapes == {"bytes", "not_array", "no_payload"}

ValueItems(shape, value) ==
    CASE shape = "bytes" ->
            <<[t |-> "Array", sig |-> <<"a", "y">>,
               v |-> [i \in 1..Len(value) |-> Byte(value[i])]]>>
      [] shape = "not_array" -> <<Str("")>>
      [] shape = "no_payload" -> <<>>

\* The daemon serving a request to its adapter, characteristic or descriptor.
DaemonGattCall(st, shape, m) ==
    IF ~st.present \/ m.path \notin {AdapterPath, CharacteristicPath, DescriptorPath}
    THEN [ok |-> FALSE, st |-> st, items |-> <<>>]
    ELSE IF m.method \in {"ReadValue", "Get"}
    THEN [ok |-> TRUE, st |-> st, items |-> ValueItems(shape, st.value)]
    ELSE IF m.method = "Set"
    THEN [ok |-> TRUE, st |-> [st EXCEPT !.alias = m.items[3]], items |-> <<>>]
    ELSE IF m.method = "StartNotify"
    THEN [ok |-> TRUE, st |-> [st EXCEPT !.notifying = TRUE], items |-> <<>>]
    ELSE [ok |-> FALSE, st |-> st, items |-> <<>>]

\* A blocking call on a connection: answered, served with the reply past
\* the deadline, or lost.
blocking_call(st, net, shape, m) ==
    IF net = "lost" THEN [ok |-> FALSE, st |-> st, items |-> <<>>]
    ELSE IF net = "late"
    THEN [ok |-> FALSE, st |-> DaemonGattCall(st, shape, m).st, items |-> <<>>]
    ELSE DaemonGattCall(st, shape, m)

\* What a proxy call did: its result, the requests sent, the connections it
\* opened, and the reply to its request with the daemon afterwards.
NotSent(st) == [ok |-> FALSE, st |-> st, items |-> <<>>]

Done(res, sent, opened, reply) ==
    [res |-> res, sent |-> sent, opened |-> opened, st |-> reply.st,
     reply |-> [ok |-> reply.ok, items |-> reply.items]]

\* The loop pushing i.inner::<u8>().unwrap() for every item.
bytes_of(z) ==
    IF \E i \in 1..Len(z) : inner_u8(z[i]).kind # "Ok" THEN Panic
    ELSE Ok([i \in 1..Len(z) |-> inner_u8(z[i]).val])

\* read_value of a characteristic and of a descriptor: the same code but for
\* the interface name.
read_value(interface, object_path, st, open_ok, net, shape, offset) ==
    IF ~open_ok THEN Done(Err(DbusError), <<>>, 0, NotSent(st))
    ELSE IF ~ValidObjectPath(object_path) THEN Done(Err(UnkownError), <<>>, 1, NotSent(st))
    ELSE
    LET entries == IF offset.some
                   THEN << <<FromBox(Str("offset")), Variant(UInt16(offset.val))>> >>
                   ELSE <<>>
        dict == MessageItemDict_new(entries, <<"s">>, <<"v">>)
    IN IF dict.kind # "Ok" THEN Done(Panic, <<>>, 1, NotSent(st))
       ELSE
       LET m == [conn |-> "new_system", path |-> object_path,
                 interface |-> interface, method |-> "ReadValue",
                 items |-> <<dict.val>>]
           reply == blocking_call(st, net, shape, m)
       IN IF ~reply.ok THEN Done(Err(DbusError), <<m>>, 1, reply)
          ELSE IF reply.items = <<>> THEN Done(Panic, <<m>>, 1, reply)
          ELSE LET z == inner_array(reply.items[1])
               IN IF z.kind # "Ok" THEN Done(Panic, <<m>>, 1, reply)
                  ELSE Done(bytes_of(z.val), <<m>>, 1, reply)

\* bluetooth_utils::get_property with the request it sends; with_proxy
\* converts the path and panics on one that is not valid.
get_property_request(st, net, shape, interface, object_path, prop) ==
    IF ~ValidObjectPath(object_path) THEN Done(Panic, <<>>, 0, NotSent(st))
    ELSE LET m == [conn |-> "session", path |-> object_path,
                   interface |-> "org.freedesktop.DBus.Properties",
                   method |-> "Get", items |-> <<interface, prop>>]
             reply == blocking_call(st, net, shape, m)
         IN IF ~reply.ok \/ reply.items = <<>>
            THEN Done(Err(DbusError), <<m>>, 0, reply)
            ELSE Done(Ok(reply.items[1]), <<m>>, 0, reply)

\* BluetoothGATTCharacteristic::get_value
get_value(st, net, shape, object_path) ==
    LET value == get_property_request(st, net, shape, GATT_CHARACTERISTIC_INTERFACE,
                                      object_path, "Value")
    IN IF value.res.kind # "Ok" THEN value
       ELSE LET z == inner_array(value.res.val)
            IN IF z.kind # "Ok" THEN [value EXCEPT !.res = Panic]
               ELSE [value EXCEPT !.res = bytes_of(z.val)]

\* bluetooth_utils::set_property
set_property(st, net, interface, object_path, prop, value, timeout_ms) ==
    IF timeout_ms < 0 \/ ~ValidObjectPath(object_path) THEN Done(Panic, <<>>, 0, NotSent(st))
    ELSE LET m == [conn |-> "session", path |-> object_path,
                   interface |-> "org.freedesktop.DBus.Properties",
                   method |-> "Set", items |-> <<interface, prop, value>>]
             reply == blocking_call(st, net, "bytes", m)
         IN IF ~reply.ok THEN Done(Err(DbusError), <<m>>, 0, reply)
            ELSE Done(Ok(Unit), <<m>>, 0, reply)

\* BluetoothAdapter::set_alias
set_alias(st, net, object_path, value) ==
    set_property(st, net, ADAPTER_INTERFACE, object_path, "Alias", value, 1000)

call_method_retry(st, net, interface, object_path, method, param, timeout_ms) ==
    IF ~ValidObjectPath(object_path) THEN Done(Err(UnkownError), <<>>, 0, NotSent(st))
    ELSE IF timeout_ms < 0 THEN Done(Panic, <<>>, 0, NotSent(st))
    ELSE LET m == [conn |-> "session", path |-> object_path,
                   interface |-> interface, method |-> method, items |-> param]
             reply == blocking_call(st, net, "bytes", m)
             again == blocking_call(reply.st, "delivered", "bytes", m)
         IN IF reply.ok THEN Done(Ok(Unit), <<m>>, 0, reply)
            ELSE IF again.ok THEN Done(Ok(Unit), <<m, m>>, 0, again)
            ELSE Done(Err(DbusError), <<m, m>>, 0, again)

\* bluetooth_utils::call_method
call_method(st, net, interface, object_path, method, param, timeout_ms) ==
    IF ~ValidObjectPath(object_path) THEN Done(Err(UnkownError), <<>>, 0, NotSent(st))
    ELSE IF timeout_ms < 0 THEN Done(Panic, <<>>, 0, NotSent(st))
    ELSE LET m == [conn |-> "session", path |-> object_path,
                   interface |-> interface, method |-> method, items |-> param]
             reply == blocking_call(st, net, "bytes", m)
         IN IF ~reply.ok THEN Done(Err(DbusError), <<m>>, 0, reply)
            ELSE Done(Ok(Unit), <<m>>, 0, reply)

\* BluetoothGATTCharacteristic::start_notify
start_notify(st, net, object_path) ==
    call_method(st, net, GATT_CHARACTERISTIC_INTERFACE, object_path,
                "StartNotify", <<>>, 1000)

NoGattCall == [op |-> "none"]

\* A proxy call returns: gcall keeps what was asked and what the call did.
GattReturn(op, path, arg, d) ==
    /\ connections + d.opened <= MaxConnections
    /\ gcall' = [op |-> op, path |-> path, arg |-> arg, res |-> d.res,
                 sent |-> d.sent, opened |-> d.opened, reply |-> d.reply]
    /\ gatt' = d.st
    /\ connections' = connections + d.opened
    /\ UNCHANGED proxy
    /\ UNCHANGED <<enumVars, discVars, xferVars, sessVars, modVars>>

CharacteristicReadValue ==
    \E offset \in Offsets, open_ok \in BOOLEAN, net \in NetOutcomes, shape \in ReplyShapes :
        GattReturn("characteristic.read_value", proxy.characteristic, offset,
                   read_value(GATT_CHARACTERISTIC_INTERFACE, proxy.characteristic,
                              gatt, open_ok, net, shape, offset))

DescriptorReadValue ==
    \E offset \in Offsets, open_ok \in BOOLEAN, net \in NetOutcomes, shape \in ReplyShapes :
        GattReturn("descriptor.read_value", proxy.descriptor, offset,
                   read_value(GATT_DESCRIPTOR_INTERFACE, proxy.descriptor,
                              gatt, open_ok, net, shape, offset))

CharacteristicGetValue ==
    \E net \in NetOutcomes, shape \in ReplyShapes :
        GattReturn("get_value", proxy.characteristic, None,
                   get_value(gatt, net, shape, proxy.characteristic))

AdapterSetAlias ==
    \E net \in NetOutcomes, value \in Aliases :
        GattReturn("set_alias", proxy.adapter, Some(value),
                   set_alias(gatt, net, proxy.adapter, value))

CharacteristicStartNotify ==
    \E net \in NetOutcomes :
        GattReturn("start_notify", proxy.characteristic, None,
                   start_notify(gatt, net, proxy.characteristic))

\* The daemon: the characteristic's value changes, the objects vanish and
\* come back.
ValueChanged ==
    /\ \E value \in ByteSeqs : value # gatt.value /\ gatt' = [gatt EXCEPT !.value = value]
    /\ UNCHANGED <<proxy, gcall, connections>>
    /\ UNCHANGED <<enumVars, discVars, xferVars, sessVars, modVars>>

ObjectsPresent ==
    /\ gatt' = [gatt EXCEPT !.present = ~gatt.present, !.notifying = FALSE]
    /\ UNCHANGED <<proxy, gcall, connections>>
    /\ UNCHANGED <<enumVars, discVars, xferVars, sessVars, modVars>>

GattInit ==
    /\ gatt = [present |-> TRUE, value |-> <<>>, notifying |-> FALSE, alias |-> "hci0"]
    /\ proxy \in {[adapter |-> AdapterPath, characteristic |-> CharacteristicPath,
                   descriptor |-> DescriptorPath],
                  [adapter |-> "", characteristic |-> "", descriptor |-> ""]}
    /\ gcall = NoGattCall
    /\ connections = 1

GattIdle ==
    /\ GattInit
    /\ proxy = [adapter |-> AdapterPath, characteristic |-> CharacteristicPath,
                descriptor |-> DescriptorPath]

GattNext ==
    \/ CharacteristicReadValue
    \/ DescriptorReadValue
    \/ CharacteristicGetValue
    \/ AdapterSetAlias
    \/ CharacteristicStartNotify
    \/ ValueChanged
    \/ ObjectsPresent

(***************************************************************************)
(* The specifications: one per part of the library, the other parts idle.  *)
(***************************************************************************)
vars == <<enumVars, discVars, xferVars, sessVars, restVars>>

DiscIdle == DiscInit /\ dsAdapter = AdapterPath

RestIdle == ModIdle /\ GattIdle

Init == EnumInit /\ DiscIdle /\ XferIdle /\ SessInit /\ RestIdle

Next == EnumNext

Spec == Init /\ [][Next]_vars

InitDiscovery == EnumInit /\ DiscInit /\ XferIdle /\ SessInit /\ RestIdle

NextDiscovery == DiscNext

SpecDiscovery == InitDiscovery /\ [][NextDiscovery]_vars

InitTransfer == EnumInit /\ DiscIdle /\ XferInit /\ SessInit /\ RestIdle

NextTransfer == XferNext

SpecTransfer == InitTransfer /\ [][NextTransfer]_vars

InitSession == EnumInit /\ DiscIdle /\ XferIdle /\ SessInit /\ RestIdle

NextSession == SessNext

SpecSession == InitSession /\ [][NextSession]_vars

InitModalias == EnumInit /\ DiscIdle /\ XferIdle /\ SessInit /\ ModInit /\ GattIdle

NextModalias == ModNext

SpecModalias == InitModalias /\ [][NextModalias]_vars

InitGatt == EnumInit /\ DiscIdle /\ XferIdle /\ SessInit /\ ModIdle /\ GattInit

NextGatt == GattNext

SpecGatt == InitGatt /\ [][NextGatt]_vars

(***************************************************************************)
(* What the claims speak of, stated on the daemon's graph itself.          *)
(***************************************************************************)
NoDuplicates(s) == \A i, j \in 1..Len(s) : i # j => s[i] # s[j]
Elements(s) == {s[i] : i \in 1..Len(s)}

AdapterIndexes(g) == {k \in 1..Len(g) : ADAPTER_INTERFACE \in DOMAIN g[k].interfaces}
AdapterPaths(g) == {g[k].path : k \in AdapterIndexes(g)}
FirstAdapterPath(g) ==
    g[CHOOSE k \in AdapterIndexes(g) : \A j \in AdapterIndexes(g) : k <= j].path

ChildPaths(g, child_iface, parent_prop, parent_path) ==
    {g[k].path : k \in {k \in 1..Len(g) :
        /\ child_iface \in DOMAIN g[k].interfaces
        /\ parent_prop \in DOMAIN g[k].interfaces[child_iface]
        /\ g[k].interfaces[child_iface][parent_prop].v = parent_path}}

Returned(op) == pc = "done" /\ call.op = op

\* C1: when the managed objects are received, Adapter::init returns
\* AdapterNotFound if no path publishes the adapter interface, and otherwise an
\* adapter whose id is the first adapter path in the daemon's enumeration order.
C1_InitFirstAdapter ==
    (Returned("init") /\ fault = "none") =>
        IF AdapterPaths(graph) = {}
        THEN result = Err(AdapterNotFound)
        ELSE result = Ok(FirstAdapterPath(graph))

C1_Witness ==
    /\ Returned("init")
    /\ Cardinality(AdapterPaths(graph)) >= 2
    /\ result = Ok(graph[1].path)

\* C2: on a graph that does not change during the call, list_item returns,
\* unless the bus fails a request, exactly the paths that publish the child
\* interface and whose parent property equals the parent path, each once.
C2_ListChildrenExact ==
    (pc = "done" /\ call.op \in DOMAIN Listings /\ ~moved) =>
        LET children == ChildPaths(graph, Listings[call.op].interface,
                                   Listings[call.op].property, call.arg)
        IN /\ fault = "none" => result.kind = "Ok"
           /\ result.kind = "Ok" =>
                /\ NoDuplicates(result.val)
                /\ Elements(result.val) = children

C2_Witness ==
    /\ Returned("list_devices")
    /\ ~moved
    /\ Len(graph) = 2
    /\ \A k \in 1..2 : DOMAIN graph[k].interfaces = {DEVICE_INTERFACE}
    /\ graph[1].interfaces[DEVICE_INTERFACE]["Adapter"].v # call.arg
    /\ result = Ok(<<graph[2].path>>)

\* C3: when the managed objects are received, get_adapters returns exactly the
\* paths whose interfaces include org.bluez.Adapter1, each once.
C3_ListAdaptersExact ==
    (Returned("get_adapters") /\ fault = "none") =>
        /\ result.kind = "Ok"
        /\ NoDuplicates(result.val)
        /\ Elements(result.val) = AdapterPaths(graph)

C3_Witness ==
    /\ Returned("get_adapters")
    /\ Len(graph) = 2
    /\ Cardinality(AdapterPaths(graph)) = 1
    /\ DOMAIN graph[1].interfaces = {DEVICE_INTERFACE}
    /\ result = Ok(<<graph[2].path>>)
Methods(sent) == [i \in 1..Len(sent) |-> sent[i].method]

\* C4: Adapter::start_discovery and Adapter::stop_discovery return
\* DeprecatedFeature("Discovery Session") in every adapter state, send no
\* request, and leave the daemon's adapter (its Discovering flag) as it was.
C4_LegacyGuards ==
    legacy.op # "none" =>
        /\ legacy.res = Err(DeprecatedFeature("Discovery Session"))
        /\ legacy.sent = <<>>
        /\ legacy.after = legacy.before

C4_Witness ==
    /\ legacy.op = "stop_discovery"
    /\ legacy.before.discovering
    /\ legacy.res = Err(DeprecatedFeature("Discovery Session"))
    /\ bluez.discovering

\* C9: a successful start_discovery followed by a successful stop_discovery
\* of a discovery session sent StartDiscovery and then StopDiscovery and leaves
\* Discovering false; stop_discovery called while the adapter is not
\* discovering returns an error.
C9_DiscoveryScoping ==
    /\ ( /\ prev.op = "start_discovery" /\ prev.res = Ok(Unit)
         /\ last.op = "stop_discovery" /\ last.res = Ok(Unit) ) =>
           /\ Methods(prev.sent) = <<"StartDiscovery">>
           /\ Methods(last.sent) = <<"StopDiscovery">>
           /\ ~bluez.discovering
    /\ (last.op = "stop_discovery" /\ ~last.before) => last.res.kind = "Err"

C9_Witness ==
    /\ prev.op = "start_discovery" /\ prev.res = Ok(Unit)
    /\ last.op = "stop_discovery" /\ last.res = Ok(Unit)
    /\ last.before
    /\ ~bluez.discovering

\* C10: set_discovery_filter (on a session of an adapter path, with a
\* non-empty UUID list) sends exactly one SetDiscoveryFilter call, whose
\* dictionary has the string key UUIDs holding the UUID list, the key RSSI (an
\* i16) iff rssi was given and the key Pathloss (a u16) iff pathloss was given.
ExpectedFilter(uuids, rssi, pathloss) ==
    {<<Str("UUIDs"), Variant([t |-> "Array", sig |-> <<"a", "s">>,
                              v |-> [i \in 1..Len(uuids) |-> Str(uuids[i])]])>>}
    \cup (IF rssi.some THEN {<<Str("RSSI"), Variant(Int16(rssi.val))>>} ELSE {})
    \cup (IF pathloss.some THEN {<<Str("Pathloss"), Variant(UInt16(pathloss.val))>>} ELSE {})

C10_FilterMarshalled ==
    ( /\ last.op = "set_discovery_filter"
      /\ dsAdapter = AdapterPath
      /\ last.args[1] # <<>> ) =>
        /\ Methods(last.sent) = <<"SetDiscoveryFilter">>
        /\ Len(last.sent[1].items) = 1
        /\ LET dict == last.sent[1].items[1].v
           IN /\ Elements(dict) = ExpectedFilter(last.args[1], last.args[2], last.args[3])
              /\ Len(dict) = Cardinality(Elements(dict))
\* C5: the poller stops once the transfer is complete or in error: a poll that
\* reports complete is its last, as is a poll other than the first that
\* reports error; polling once per tick, it has made at most N + 1 polls when
\* Status became complete at tick N, and at most N + 2 when it became error.
C5_PollerTerminates ==
    /\ lastPoll = TransferState.Complete => wpc = "returned"
    /\ (lastPoll = TransferState.Error /\ polls >= 2) => wpc = "returned"
    /\ status = TransferState.Complete => polls <= termTick + 1
    /\ status = TransferState.Error => polls <= termTick + 2

C5_Witness ==
    /\ status = TransferState.Complete
    /\ termTick >= 2
    /\ polls = termTick + 1
    /\ lastPoll = TransferState.Complete
    /\ wpc = "returned"
    /\ wres = Ok(Unit)
    /\ ticks > termTick

\* C6: wait_until_transfer_completed never returns an error: it returns unit
\* whichever poll fails, the first included.
C6_NeverReturnsError ==
    wpc = "returned" => wres = Ok(Unit)
\* C7: once incoming has returned, whether its window elapsed or driving the
\* connection failed, the receiver it installed has been removed: no receiver
\* of incoming is left on the connection.
C7_ReceiverRemoved ==
    spc = "idle" => filters = <<>>

\* C8: one call of incoming (begun with no message waiting and no other
\* receiver installed) invokes its callback once for each message delivered
\* during the call, in delivery order, before it returns.
C8_OncePerSignal ==
    (spc = "idle" /\ incomings > 0 /\ cur.pending = <<>> /\ cur.others = <<>>) =>
        cur.invoked = cur.window

(***************************************************************************)
(* The Modalias string the claims speak of: <src>:v<VVVV>p<PPPP>d<DDDD>.   *)
(***************************************************************************)
ColonAt(m) == {i \in 1..Len(m) : m[i] = ":"}

WellFormedModalias(m) ==
    /\ Cardinality(ColonAt(m)) = 1
    /\ LET c == CHOOSE i \in ColonAt(m) : TRUE
           part == SubSeq(m, c + 1, Len(m))
       IN /\ Len(part) = 15
          /\ part[1] = "v" /\ part[6] = "p" /\ part[11] = "d"
          /\ \A i \in (2..5) \cup (7..10) \cup (12..15) : IsHex(part[i])

Hex4(part, i) ==
    ((HexVal(part[i]) * 16 + HexVal(part[i + 1])) * 16 + HexVal(part[i + 2])) * 16
        + HexVal(part[i + 3])

ExpectedModalias(m) ==
    LET c == CHOOSE i \in ColonAt(m) : TRUE
        part == SubSeq(m, c + 1, Len(m))
    IN <<SubSeq(m, 1, c - 1), Hex4(part, 2), Hex4(part, 7), Hex4(part, 12)>>

ModaliasGetters ==
    [get_vendor_id_source |-> 1, get_vendor_id |-> 2, get_product_id |-> 3,
     get_device_id |-> 4]

ModaliasIsString == modalias.kind = "string"

UsbModalias ==
    <<"u", "s", "b", ":", "v", "1", "D", "6", "B", "p", "0", "2", "4", "6",
      "d", "0", "5", "2", "A">>

\* C11: for a Modalias of the form <src>:v<VVVV>p<PPPP>d<DDDD>, four hex
\* digits each, get_modalias returns (src, vendor, product, device), every
\* number the value of its digits read most significant first and within
\* 0..65535, and the four getters return the matching component.
C11_ModaliasParsed ==
    (mcall # "none" /\ ModaliasIsString /\ WellFormedModalias(modalias.text)) =>
        LET e == ExpectedModalias(modalias.text) IN
        /\ \A k \in 2..4 : e[k] \in 0..65535
        /\ mcall = "get_modalias" => mres = Ok(e)
        /\ mcall # "get_modalias" => mres = Ok(e[ModaliasGetters[mcall]])

C11_Witness ==
    /\ mcall = "get_modalias"
    /\ modalias = [kind |-> "string", text |-> UsbModalias]
    /\ mres = Ok(<<<<"u", "s", "b">>, 7531, 582, 1322>>)

\* C12: for a Modalias string that is malformed (no ':', a second part
\* shorter than 15 characters, a non-hex digit, a marker other than v, p, d)
\* get_modalias returns the Unknown error: no abort, no parsed tuple.
C12_MalformedIsUnknown ==
    (mcall = "get_modalias" /\ ModaliasIsString
        /\ ~WellFormedModalias(modalias.text)) =>
        mres = Err(UnkownError)

(***************************************************************************)
(* The proxies' requests as the claims speak of them.                      *)
(***************************************************************************)
ReadValueOps == {"characteristic.read_value", "descriptor.read_value"}
RequestOps == {"get_value", "set_alias", "start_notify"}

ExpectedOptions(offset) ==
    IF offset.some THEN << <<Str("offset"), Variant(UInt16(offset.val))>> >> ELSE <<>>

RepliedBytes(reply) ==
    reply.ok /\ reply.items # <<>> /\ reply.items[1].t = "Array"

BytesOfReply(reply) ==
    [i \in 1..Len(reply.items[1].v) |-> reply.items[1].v[i].v]

\* C13: read_value(offset) of a characteristic and of a descriptor sends one
\* ReadValue call whose options dictionary is empty without an offset and
\* holds exactly "offset" -> variant(u16) with one, and returns the bytes of
\* the daemon's reply, the same bytes in the same order.
C13_ReadValueMarshalled ==
    (gcall.op \in ReadValueOps /\ ValidObjectPath(gcall.path) /\ gcall.opened = 1) =>
        /\ Len(gcall.sent) = 1
        /\ gcall.sent[1].method = "ReadValue"
        /\ gcall.sent[1].items[1].v = ExpectedOptions(gcall.arg)
        /\ RepliedBytes(gcall.reply) => gcall.res = Ok(BytesOfReply(gcall.reply))

\* C17: every request of a proxy operation is sent on the connection of the
\* session the proxy borrows and no proxy operation opens a connection: the
\* connections opened are those of the live sessions, here one.
C17_SessionConnectionOnly ==
    /\ connections = 1
    /\ gcall.op # "none" =>
          /\ gcall.opened = 0
          /\ \A i \in 1..Len(gcall.sent) : gcall.sent[i].conn = "session"

C14_OpenKnownAdapter ==
    (Returned("create_adapter") /\ fault = "none") =>
        IF call.arg \in AdapterPaths(graph)
        THEN result = Ok(call.arg)
        ELSE result = Err(AdapterNotFound)

C14_Witness ==
    /\ Returned("create_adapter")
    /\ fault = "none"
    /\ call.arg \in GraphPaths(graph) \ AdapterPaths(graph)
    /\ AdapterPaths(graph) # {}
    /\ result = Err(AdapterNotFound)

\* C15: on a malformed daemon reply (a managed-objects reply without
\* payload, a property value of another type than the reader expects) the
\* enumeration or reader returns an error value: it does not panic.
C15_MalformedReplyIsError ==
    (pc = "done" /\ fault \in {"no_payload", "bad_type"}) => result.kind = "Err"

\* C18: a proxy that a constructor returned with a non-empty object path had
\* that path among the daemon's objects when it was created.
C18_ProxyPathExisted ==
    (pc = "done" /\ call.op \in ProxyConstructors \cup {"init", "create_adapter"}
        /\ result.kind = "Ok" /\ result.val # "") =>
        result.val \in GraphPaths(graph)

\* C16: status() returns a status only when the daemon's Status is one of
\* queued, active, complete, suspended, error; for a Status that is no
\* string or an unknown string it returns FailedToGetStatus.
C16_StatusDecoded ==
    /\ (stat.kind = "string" /\ stat.value \in TransferStates) =>
            stat.res = Ok(stat.value)
    /\ (stat.kind = "not_string"
            \/ (stat.kind = "string" /\ stat.value \notin TransferStates)) =>
            stat.res = Err(FailedToGetStatus)

\* C19: dropping a discovery session sends nothing, StopDiscovery included,
\* and leaves the adapter's Discovering flag as it was: after a successful
\* start_discovery and a drop without stop_discovery the adapter still
\* discovers.
C19_DropSendsNothing ==
    last.op = "drop" =>
        /\ last.sent = <<>>
        /\ last.after = last.before

C19_Witness ==
    /\ prev.op = "start_discovery" /\ prev.res = Ok(Unit)
    /\ last.op = "drop"
    /\ last.before
    /\ bluez.discovering

(***************************************************************************)
(* Enumerations: empty lists and failed reads                              *)
(***************************************************************************)
ListOps == DOMAIN Listings \cup {"get_device_list"}

ListingOf(op) ==
    IF op \in {"get_device_list", "get_first_device"} THEN "list_devices" ELSE op

\* C21: a listing or get_device_list that gathered no child returns, unless
\* the bus fails a request, the empty list and no error, in particular when no
\* object of an unchanged graph matches; and NoDeviceFound is the result of
\* get_first_device only, and only when its enumeration of devices is empty.
C21_EmptyIsSuccess ==
    /\ (pc = "done" /\ call.op \in ListOps /\ fault = "none") =>
          /\ v = <<>> => result = Ok(<<>>)
          /\ (~moved /\ ChildPaths(graph, Listings[ListingOf(call.op)].interface,
                                   Listings[ListingOf(call.op)].property,
                                   call.arg) = {}) => result = Ok(<<>>)
    /\ (pc = "done" /\ result = Err(NoDeviceFound)) =>
          /\ call.op = "get_first_device"
          /\ fault = "none"
          /\ v = <<>>
          /\ ~moved => ChildPaths(graph, DEVICE_INTERFACE, "Adapter", call.arg) = {}

C21_Witness ==
    /\ Returned("get_device_list")
    /\ ~moved
    /\ \E k \in 1..Len(graph) :
          /\ DEVICE_INTERFACE \in DOMAIN graph[k].interfaces
          /\ graph[k].interfaces[DEVICE_INTERFACE]["Adapter"].v # call.arg
    /\ result = Ok(<<>>)

C23_ReturnsAfterTerminalPoll ==
    /\ (wpc = "returned" /\ wres = Ok(Unit)) =>
          lastPoll \in {TransferState.Complete, TransferState.Error, "failed"}
    /\ lastPoll \in {TransferState.Queued, TransferState.Active,
                     TransferState.Suspended} =>
          /\ wpc = "loop"
          /\ wres = NoResult
          /\ transfer_status = lastPoll

C23_Witness ==
    /\ wpc = "returned"
    /\ wres = Ok(Unit)
    /\ polls >= 3
    /\ transfer_status = TransferState.Suspended
    /\ lastPoll = "failed"

(***************************************************************************)
(* Argument values                                                         *)
(***************************************************************************)
\* C24: set_discovery_filter called with an empty list of UUIDs returns a
\* result, success or an error, to its caller and does not panic.
C24_EmptyFilterReturns ==
    (last.op = "set_discovery_filter" /\ last.args[1] = <<>>) =>
        /\ last.res # Panic
        /\ dpc # "panicked"

====
